---- MODULE Spec2Model ----
(***************************************************************************)
(* Model of the moneypy ledger core: Account, Entry, Transaction           *)
(* (moneypy/accounting.py) and EqualSplitter.split (moneypy/split.py).     *)
(*                                                                         *)
(* A Decimal is represented by an integer number of raw steps.  One        *)
(* quantum of CURRENCY_EPSILON (0.01, the exponent of Decimal("1.00"))     *)
(* is RawPerQuantum raw steps, so that unquantized inputs, exact ties and  *)
(* ROUND_HALF_EVEN are all representable.  uuid4() values of Entry.uid     *)
(* are fresh and never read by the modelled code; they are left out.       *)
(* Costs given to split stay far below Decimal's 28-digit context         *)
(* precision, so division followed by quantize is one exact rounding; the  *)
(* precision limit of quantize is modelled for the amounts given to Entry. *)
(***************************************************************************)
EXTENDS Integers, Sequences, FiniteSets, TLC

\* ---------------------------------------------------------------- bounds
RawPerQuantum == 4
MaxRawCost == 14
MaxNegRawCost == 6
MaxLegs == 6
MaxEntries == 3
MaxRawAmount == 6

\* ------------------------------------------------------------- constants
\* Decimal("1.00"): the value one, written with coefficient 100 at
\* exponent -2.  quantize() keeps only the exponent, so the quantum is
\* 1/100 of a currency unit.
CURRENCY_EPSILON == 100

\* Raw steps in one currency unit.
RawPerUnit == CURRENCY_EPSILON * RawPerQuantum

\* The Decimal units.cc as raw steps (cc in 0..99).
Dec(units, cc) == (units * CURRENCY_EPSILON + cc) * RawPerQuantum

Abs(x) == IF x < 0 THEN -x ELSE x

\* n/d rounded to the nearest integer, exact ties to the even neighbour.
ROUND_HALF_EVEN(n, d) ==
    LET q == n \div d
        r == n % d
    IN  IF 2 * r < d THEN q
        ELSE IF 2 * r > d THEN q + 1
        ELSE IF q % 2 = 0 THEN q ELSE q + 1

\* Variant: exact ties go away from zero (ROUND_HALF_UP).
ROUND_HALF_UP(n, d) ==
    LET q == n \div d
        r == n % d
    IN  IF 2 * r < d THEN q
        ELSE IF 2 * r > d THEN q + 1
        ELSE IF n >= 0 THEN q + 1 ELSE q

\* ROUNDING_STRATEGY = ROUND_HALF_EVEN
ROUNDING_STRATEGY(n, d) == ROUND_HALF_EVEN(n, d)

\* Variant: the quantum is one whole currency unit
\* (CURRENCY_EPSILON = Decimal("1")).
QuantizeRatio_WholeUnit(num, den) == RawPerUnit * ROUNDING_STRATEGY(num, den * RawPerUnit)

\* (num/den).quantize(CURRENCY_EPSILON, ROUNDING_STRATEGY), den > 0
QuantizeRatio(num, den) == RawPerQuantum * ROUNDING_STRATEGY(num, den * RawPerQuantum)

\* x.quantize(CURRENCY_EPSILON, ROUNDING_STRATEGY)
Quantize(x) == QuantizeRatio(x, 1)

\* Precision of the decimal module's default context: quantize() raises
\* InvalidOperation when its result needs more significant digits.
prec == 28

\* A Decimal given to Entry: coef * 10^exp raw steps.
DecimalOf(coef, exp) == [coef |-> coef, exp |-> exp]

Value(d) == d.coef * 10 ^ d.exp

\* d.quantize(CURRENCY_EPSILON, ...) has more than prec digits:
\* |d| >= 10^prec quanta.  A coefficient below 2^31 cannot reach
\* RawPerQuantum * 10^9.
QuantizeOverflows(d) ==
    LET gap == prec - d.exp
    IN  IF gap > 8 THEN FALSE
        ELSE IF gap < 0 THEN d.coef # 0
        ELSE Abs(d.coef) >= RawPerQuantum * 10 ^ gap

RECURSIVE Sum(_)
Sum(s) == IF s = <<>> THEN 0 ELSE Head(s) + Sum(Tail(s))

\* ------------------------------------------------------------ data model
AccountUids == 1..3
AccountNames == {"Alice", "Bob", "Carol"}

\* Account(uid, name)
Account(uid, name) == [uid |-> uid, name |-> name]

Alice == Account(1, "Alice")
Bob == Account(2, "Bob")
Carol == Account(3, "Carol")

\* accounts = {name: Account(uuid4(), name) ...}: the caller's registry
Registry == {Alice, Bob, Carol}

\* Every Account value that can be constructed.
AllAccounts == {Account(u, n) : u \in AccountUids, n \in AccountNames}

\* dataclass(frozen=True) generates __eq__ over all fields, in order.
AccountEq(a, b) == <<a.uid, a.name>> = <<b.uid, b.name>>

TransactionUids == {10, 20}
Descriptions == {"dinner"}

\* Entry(uid, transaction_uid, account_uid, amount) with __post_init__
Entry(transaction_uid, account_uid, amount) ==
    [transaction_uid |-> transaction_uid,
     account_uid |-> account_uid,
     amount |-> Quantize(amount)]

\* Entry.__post_init__: the exception raised, or no exception
EntryOverflows(amount) == QuantizeOverflows(amount)

\* ------------------------------------------------------------ exceptions
\* f"{total:.2f}": sign, integer digits and two fraction digits.
Format2f(x) ==
    LET q == ROUND_HALF_EVEN(x * 100, RawPerUnit)
    IN  [sign |-> IF q < 0 THEN "-" ELSE "",
         units |-> Abs(q) \div 100,
         cents |-> Abs(q) % 100]

\* The Decimal a formatted amount denotes.
ParseAmount(t) ==
    (IF t.sign = "-" THEN -1 ELSE 1) * (((t.units * 100 + t.cents) * RawPerUnit) \div 100)

NoAmount == [sign |-> "", units |-> 0, cents |-> 0]

NoException == [exc |-> "", msg |-> "", description |-> "", amount |-> NoAmount]

InsufficientEntries ==
    [exc |-> "ValueError", msg |-> "Transaction must contain at least 2 entries.",
     description |-> "", amount |-> NoAmount]

UnbalancedTransaction(description, total) ==
    [exc |-> "ValueError", msg |-> "Transaction {description} is out of balance by $ {total:.2f}.",
     description |-> description, amount |-> Format2f(total)]

EntryOwnershipMismatch ==
    [exc |-> "ValueError", msg |-> "Entry transaction_uid mismatch.",
     description |-> "", amount |-> NoAmount]

\* Decimal division by len(group) = 0 under the default context traps.
DivisionByZero ==
    [exc |-> "decimal.DivisionByZero", msg |-> "", description |-> "", amount |-> NoAmount]

InvalidOperation ==
    [exc |-> "decimal.InvalidOperation", msg |-> "", description |-> "", amount |-> NoAmount]

\* cost / 0
DivideByEmpty(cost) == IF cost = 0 THEN InvalidOperation ELSE DivisionByZero

\* ----------------------------------------------------------- Transaction
\* Variant: a transaction of one entry is accepted (len < 1).
TransactionPostInit_MinOne(uid, es, description) ==
    LET total == Sum([i \in 1..Len(es) |-> es[i].amount])
    IN  IF Len(es) < 1 THEN InsufficientEntries
        ELSE IF Quantize(total) # 0 THEN UnbalancedTransaction(description, total)
        ELSE IF \E i \in 1..Len(es) : es[i].transaction_uid # uid
             THEN EntryOwnershipMismatch
        ELSE NoException

\* Variant: the balance check tolerates less than half a currency unit.
TransactionPostInit_UnitTolerance(uid, es, description) ==
    LET total == Sum([i \in 1..Len(es) |-> es[i].amount])
    IN  IF Len(es) < 2 THEN InsufficientEntries
        ELSE IF QuantizeRatio_WholeUnit(total, 1) # 0
             THEN UnbalancedTransaction(description, total)
        ELSE IF \E i \in 1..Len(es) : es[i].transaction_uid # uid
             THEN EntryOwnershipMismatch
        ELSE NoException

\* Variant: all() in place of any() in the ownership check.
TransactionPostInit_AllMismatch(uid, es, description) ==
    LET total == Sum([i \in 1..Len(es) |-> es[i].amount])
    IN  IF Len(es) < 2 THEN InsufficientEntries
        ELSE IF Quantize(total) # 0 THEN UnbalancedTransaction(description, total)
        ELSE IF \A i \in 1..Len(es) : es[i].transaction_uid # uid
             THEN EntryOwnershipMismatch
        ELSE NoException

\* Transaction.__post_init__: the exception raised, or NoException.
TransactionPostInit(uid, es, description) ==
    LET total == Sum([i \in 1..Len(es) |-> es[i].amount])
    IN  IF Len(es) < 2 THEN InsufficientEntries
        ELSE IF Quantize(total) # 0 THEN UnbalancedTransaction(description, total)
        ELSE IF \E i \in 1..Len(es) : es[i].transaction_uid # uid
             THEN EntryOwnershipMismatch
        ELSE NoException

\* Transaction.gross_cost
gross_cost(t) ==
    LET pos == SelectSeq(t.entries, LAMBDA e : e.amount > 0)
    IN  Sum([i \in 1..Len(pos) |-> pos[i].amount])

\* ---------------------------------------------------------- EqualSplitter
\* Variant: every leg, the last included, gets the rounded share.
Legs_AllShares(cost, k) == [i \in 1..k |-> QuantizeRatio(cost, k)]

\* Variant: the remainder goes to the first leg.
Legs_RemainderFirst(cost, k) ==
    LET shares == [i \in 1..(k - 1) |-> QuantizeRatio(cost, k)]
    IN  <<cost - Sum(shares)>> \o shares

\* [share] * (k - 1); then append(cost - sum(...)), for k > 0
Legs(cost, k) ==
    LET shares == [i \in 1..(k - 1) |-> QuantizeRatio(cost, k)]
    IN  Append(shares, cost - Sum(shares))

\* credit_entries
CreditEntries(cost, transaction_uid, creditors) ==
    LET credits == Legs(cost, Len(creditors))
    IN  [i \in 1..Len(creditors) |-> Entry(transaction_uid, creditors[i].uid, credits[i])]

\* debit_entries
DebitEntries(cost, transaction_uid, debtors) ==
    LET debits == Legs(cost, Len(debtors))
    IN  [i \in 1..Len(debtors) |-> Entry(transaction_uid, debtors[i].uid, -debits[i])]

\* Variant: an empty debtors group is guarded and yields no debit legs.
SplitRaises_DebtorsGuarded(cost, creditors, debtors) ==
    LET c == Quantize(cost)
    IN  IF Len(creditors) = 0 THEN DivideByEmpty(c)
        ELSE NoException

\* EqualSplitter.split: the exception raised, or NoException
SplitRaises(cost, creditors, debtors) ==
    LET c == Quantize(cost)
    IN  IF Len(creditors) = 0 THEN DivideByEmpty(c)
        ELSE IF Len(debtors) = 0 THEN DivideByEmpty(c)
        ELSE NoException

\* Variant: the cost is not quantized before it is divided.
SplitEntries_Unquantized(cost, transaction_uid, creditors, debtors) ==
    CreditEntries(cost, transaction_uid, creditors)
        \o DebitEntries(cost, transaction_uid, debtors)

\* EqualSplitter.split: the returned tuple (when nothing is raised)
SplitEntries(cost, transaction_uid, creditors, debtors) ==
    LET c == Quantize(cost)
    IN  CreditEntries(c, transaction_uid, creditors)
            \o DebitEntries(c, transaction_uid, debtors)

\* ----------------------------------------------------------------- state
VARIABLES
    phase,        \* where the caller is: idle, building, split, done
    op,           \* the last operation called
    cost, transaction_uid, creditors, debtors,   \* arguments of split
    entries,      \* the caller's tuple of entries
    uid,          \* the id given to Transaction
    raised,       \* the exception of the last operation, or NoException
    transaction,  \* <<t>> when a Transaction was produced, else <<>>
    amount,       \* the raw amount given to the last Entry(...)
    lhs, rhs, equal   \* operands and result of Account ==

vars == <<phase, op, cost, transaction_uid, creditors, debtors, entries, uid,
          raised, transaction, amount, lhs, rhs, equal>>

Costs == ((-MaxNegRawCost)..MaxRawCost) \cup {Dec(10, 0), Dec(100, 0)}

RawAmounts == ((-MaxRawAmount)..MaxRawAmount) \cup {Dec(50, 0), -Dec(49, 99)}

\* +-10^26 currency units: the smallest magnitude quantize() rejects.
HugeAmounts == {DecimalOf(RawPerQuantum, prec), DecimalOf(-RawPerQuantum, prec)}

EntryAmounts == {DecimalOf(r, 0) : r \in RawAmounts} \cup HugeAmounts

Init ==
    /\ phase = "idle"
    /\ op = "none"
    /\ cost = 0
    /\ transaction_uid = 10
    /\ creditors = <<>>
    /\ debtors = <<>>
    /\ entries = <<>>
    /\ uid = 10
    /\ raised = NoException
    /\ transaction = <<>>
    /\ amount = DecimalOf(0, 0)
    /\ lhs = Alice
    /\ rhs = Alice
    /\ equal = TRUE

\* entries = equal_splitter.split(cost, transaction_uid, creditors, debtors)
Split ==
    /\ phase = "idle"
    /\ \E c \in Costs, t \in TransactionUids, k \in 0..MaxLegs :
       \E m \in 0..(MaxLegs - k) :
       \E cr \in [1..k -> Registry], db \in [1..m -> Registry] :
         LET exn == SplitRaises(c, cr, db)
         IN  /\ op' = "split"
             /\ cost' = c
             /\ transaction_uid' = t
             /\ creditors' = cr
             /\ debtors' = db
             /\ raised' = exn
             /\ entries' = IF exn = NoException THEN SplitEntries(c, t, cr, db) ELSE entries
             /\ phase' = IF exn = NoException THEN "split" ELSE "done"
    /\ UNCHANGED <<uid, transaction, amount, lhs, rhs, equal>>

\* entries += (Entry(uuid4(), t, a.uid, amount),)
CreateEntry ==
    /\ phase \in {"idle", "building"}
    /\ Len(entries) < MaxEntries
    /\ \E t \in TransactionUids, a \in {Alice}, amt \in EntryAmounts :
         /\ amount' = amt
         /\ IF EntryOverflows(amt)
            THEN /\ raised' = InvalidOperation
                 /\ entries' = entries
                 /\ phase' = "done"
            ELSE /\ raised' = NoException
                 /\ entries' = Append(entries, Entry(t, a.uid, Value(amt)))
                 /\ phase' = "building"
    /\ op' = "entry"
    /\ UNCHANGED <<cost, transaction_uid, creditors, debtors, uid, transaction, lhs, rhs, equal>>

\* Transaction(uid, entries, description, timestamp=None)
CreateTransaction ==
    /\ phase \in {"idle", "building", "split"}
    /\ \E u \in TransactionUids, d \in Descriptions :
         LET exn == TransactionPostInit(u, entries, d)
         IN  /\ uid' = u
             /\ raised' = exn
             /\ transaction' = IF exn = NoException
                                 THEN <<[uid |-> u, entries |-> entries, description |-> d]>>
                                 ELSE <<>>
    /\ op' = "transaction"
    /\ phase' = "done"
    /\ UNCHANGED <<cost, transaction_uid, creditors, debtors, entries, amount, lhs, rhs, equal>>

\* a == b for two Account values
CompareAccounts ==
    /\ phase = "idle"
    /\ \E a \in AllAccounts, b \in AllAccounts :
         /\ lhs' = a
         /\ rhs' = b
         /\ equal' = AccountEq(a, b)
    /\ op' = "eq"
    /\ phase' = "done"
    /\ UNCHANGED <<cost, transaction_uid, creditors, debtors, entries, uid, raised, transaction,
                   amount>>

Next == Split \/ CreateEntry \/ CreateTransaction \/ CompareAccounts

Spec == Init /\ [][Next]_vars

\* ---------------------------------------------------------------- claims
Amounts(es) == [i \in 1..Len(es) |-> es[i].amount]

\* split was the last call and both groups were non-empty
SplitOfNonEmpty == op = "split" /\ Len(creditors) > 0 /\ Len(debtors) > 0

\* split was the last call and one of the groups was empty
SplitOfEmpty == op = "split" /\ (Len(creditors) = 0 \/ Len(debtors) = 0)

CreditPart == SubSeq(entries, 1, Len(creditors))
DebitPart == SubSeq(entries, Len(creditors) + 1, Len(entries))

Mismatched == \E i \in 1..Len(entries) : entries[i].transaction_uid # uid

IsUnbalanced(e) ==
    /\ e.exc = "ValueError"
    /\ e.msg = "Transaction {description} is out of balance by $ {total:.2f}."

\* C1: for a positive cost and non-empty groups of sizes k and m, split
\* returns exactly k + m entries and their amounts sum to exactly zero.
C1_SplitBalanced ==
    (SplitOfNonEmpty /\ cost > 0) =>
        /\ raised = NoException
        /\ Len(entries) = Len(creditors) + Len(debtors)
        /\ Sum(Amounts(entries)) = 0

C1_Witness ==
    /\ SplitOfNonEmpty /\ cost > 0
    /\ Len(creditors) = 3 /\ Len(debtors) = 2
    /\ Quantize(cost) % (3 * RawPerQuantum) # 0
    /\ Len(entries) = 5
    /\ Sum(Amounts(entries)) = 0

\* C2: for every cost and non-empty groups, the creditor entries sum to
\* exactly +q(cost) and the debtor entries to exactly -q(cost); a group of
\* size 1 carries the whole quantized cost on its single leg.
C2_GroupSums ==
    SplitOfNonEmpty =>
        /\ Len(entries) = Len(creditors) + Len(debtors)
        /\ Sum(Amounts(CreditPart)) = Quantize(cost)
        /\ Sum(Amounts(DebitPart)) = -Quantize(cost)
        /\ (Len(creditors) = 1 => entries[1].amount = Quantize(cost))
        /\ (Len(debtors) = 1 => entries[Len(entries)].amount = -Quantize(cost))
        /\ (Len(creditors) = 1 /\ Len(debtors) = 1 =>
                Amounts(entries) = <<Quantize(cost), -Quantize(cost)>>)

C2_Witness ==
    /\ SplitOfNonEmpty
    /\ Len(creditors) = 1 /\ Len(debtors) = 2
    /\ cost # Quantize(cost)
    /\ Quantize(cost) % (2 * RawPerQuantum) # 0
    /\ entries[1].amount = Quantize(cost)
    /\ entries[2].amount + entries[3].amount = -Quantize(cost)

\* C3 (as stated): every entry sequence whose quantized amounts sum to a
\* non-zero value fails with the out-of-balance error, which reports
\* exactly that sum.
C3_Original ==
    (op = "transaction" /\ Sum(Amounts(entries)) # 0) =>
        /\ IsUnbalanced(raised)
        /\ ParseAmount(raised.amount) = Sum(Amounts(entries))

\* C3 (amended): every entry sequence of at least 2 entries whose quantized
\* amounts sum to a non-zero value fails with the out-of-balance error, no
\* Transaction is produced, and the reported imbalance equals the sum
\* exactly; entries [+50.00, -49.99] report 0.01.
C3_UnbalancedReported ==
    /\ (op = "transaction" /\ Len(entries) >= 2 /\ Sum(Amounts(entries)) # 0) =>
          /\ IsUnbalanced(raised)
          /\ ParseAmount(raised.amount) = Sum(Amounts(entries))
          /\ transaction = <<>>
    /\ (op = "transaction" /\ Amounts(entries) = <<Dec(50, 0), -Dec(49, 99)>>) =>
          raised.amount = [sign |-> "", units |-> 0, cents |-> 1]

C3_Witness ==
    /\ op = "transaction"
    /\ Amounts(entries) = <<Dec(50, 0), -Dec(49, 99)>>
    /\ IsUnbalanced(raised)
    /\ raised.amount = [sign |-> "", units |-> 0, cents |-> 1]
    /\ transaction = <<>>

\* C4 (as stated): every entry sequence with an entry whose transaction_uid
\* differs from the Transaction's id fails with the transaction_uid
\* mismatch error and produces no Transaction.
C4_Original ==
    (op = "transaction" /\ Mismatched) =>
        /\ raised = EntryOwnershipMismatch
        /\ transaction = <<>>

\* C4 (amended): every entry sequence with an entry whose transaction_uid
\* differs from the Transaction's id fails and produces no Transaction; the
\* error is the transaction_uid mismatch error when the sequence has at
\* least 2 entries and its amounts sum to zero, the 'at least 2 entries'
\* error when it has fewer than 2, and the out-of-balance error otherwise.
C4_MismatchRejected ==
    (op = "transaction" /\ Mismatched) =>
        /\ transaction = <<>>
        /\ raised = IF Len(entries) < 2 THEN InsufficientEntries
                    ELSE IF Sum(Amounts(entries)) # 0
                         THEN UnbalancedTransaction(raised.description, Sum(Amounts(entries)))
                    ELSE EntryOwnershipMismatch

C4_Witness ==
    /\ op = "transaction"
    /\ Len(entries) = 2
    /\ entries[1].amount # 0
    /\ Sum(Amounts(entries)) = 0
    /\ entries[1].transaction_uid = uid
    /\ entries[2].transaction_uid # uid
    /\ raised = EntryOwnershipMismatch
    /\ transaction = <<>>

\* C5: every entry sequence of length 0 or 1 fails with the 'at least 2
\* entries' error, whatever its amounts and transaction_uids, and no
\* Transaction is produced.
C5_InsufficientEntries ==
    (op = "transaction" /\ Len(entries) < 2) =>
        /\ raised = InsufficientEntries
        /\ transaction = <<>>

C5_Witness ==
    /\ op = "transaction"
    /\ Len(entries) = 1
    /\ entries[1].amount = 0
    /\ entries[1].transaction_uid = uid
    /\ raised = InsufficientEntries
    /\ transaction = <<>>

\* The entry tuple of the scenario: one credit for Alice, three debits.
ScenarioEntries(t, a, b, c, d) ==
    <<[transaction_uid |-> t, account_uid |-> Alice.uid, amount |-> a],
      [transaction_uid |-> t, account_uid |-> Alice.uid, amount |-> b],
      [transaction_uid |-> t, account_uid |-> Bob.uid, amount |-> c],
      [transaction_uid |-> t, account_uid |-> Carol.uid, amount |-> d]>>

Scenario ==
    /\ op = "split"
    /\ cost = Dec(100, 0)
    /\ creditors = <<Alice>>
    /\ debtors = <<Alice, Bob, Carol>>

TenAmongThree ==
    /\ SplitOfNonEmpty
    /\ cost = Dec(10, 0)
    /\ Len(creditors) = 3

\* C6 (as stated): split quantizes to whole currency units: 10.00 among 3
\* creditors gives credits [3, 3, 4]; 100.00 with creditors [Alice] and
\* debtors [Alice, Bob, Carol] gives +100.00, -33.00, -33.00, -34.00.
C6_Original ==
    /\ TenAmongThree => Amounts(CreditPart) = <<Dec(3, 0), Dec(3, 0), Dec(4, 0)>>
    /\ Scenario =>
          entries = ScenarioEntries(transaction_uid, Dec(100, 0),
                                    -Dec(33, 0), -Dec(33, 0), -Dec(34, 0))

\* C6 (amended): split quantizes to hundredths of a currency unit: 10.00
\* among 3 creditors gives credits [3.33, 3.33, 3.34] in input order;
\* 100.00 with creditors [Alice] and debtors [Alice, Bob, Carol] gives
\* exactly Alice +100.00, Alice -33.33, Bob -33.33, Carol -33.34, which
\* sum to 0.00.
C6_HundredthsSplit ==
    /\ TenAmongThree =>
          /\ Len(entries) = 3 + Len(debtors)
          /\ Amounts(CreditPart) = <<Dec(3, 33), Dec(3, 33), Dec(3, 34)>>
    /\ Scenario =>
          /\ entries = ScenarioEntries(transaction_uid, Dec(100, 0),
                                       -Dec(33, 33), -Dec(33, 33), -Dec(33, 34))
          /\ Sum(Amounts(entries)) = 0

C6_Witness ==
    /\ Scenario
    /\ raised = NoException
    /\ Amounts(entries) = <<Dec(100, 0), -Dec(33, 33), -Dec(33, 33), -Dec(33, 34)>>

\* C7: for a positive cost and non-empty groups, every creditor entry has
\* amount >= 0 and every debtor entry has amount <= 0, the last leg of
\* each group included.
C7_Original ==
    (SplitOfNonEmpty /\ cost > 0) =>
        /\ \A i \in 1..Len(creditors) : entries[i].amount >= 0
        /\ \A i \in (Len(creditors) + 1)..Len(entries) : entries[i].amount <= 0

\* C8 (as stated): split with an empty creditors or debtors sequence fails
\* with an EmptyGroup error and returns no entries, for every cost.
C8_Original ==
    SplitOfEmpty =>
        /\ raised.exc = "EmptyGroup"
        /\ entries = <<>>

\* C8 (amended): split with an empty creditors or debtors sequence fails
\* with the decimal division error of cost / 0 (decimal.DivisionByZero, or
\* decimal.InvalidOperation when the quantized cost is zero) and returns no
\* entries, for every cost including zero.
C8_EmptyGroupFails ==
    SplitOfEmpty =>
        /\ raised.exc = IF Quantize(cost) = 0 THEN "decimal.InvalidOperation"
                        ELSE "decimal.DivisionByZero"
        /\ entries = <<>>
        /\ phase = "done"

C8_Witness ==
    /\ op = "split"
    /\ Len(creditors) = 2
    /\ debtors = <<>>
    /\ cost # 0
    /\ Quantize(cost) = 0
    /\ raised = InvalidOperation
    /\ entries = <<>>

\* C9: two Account values are equal exactly when their ids are equal.
C9_Original ==
    op = "eq" => (equal <=> lhs.uid = rhs.uid)

\* C10: in each group of size k the first k-1 legs carry the same share,
\* q(cost)/k quantized with the shared rounding policy, and only the last
\* leg carries the remainder q(cost) - (k-1)*share; the i-th creditor
\* (debtor) entry references the i-th creditor (debtor) account, creditor
\* entries before debtor entries.
C10_RemainderOnLast ==
    SplitOfNonEmpty =>
        LET k == Len(creditors)
            m == Len(debtors)
            q == Quantize(cost)
            cshare == RawPerQuantum * ROUND_HALF_EVEN(q, k * RawPerQuantum)
            dshare == RawPerQuantum * ROUND_HALF_EVEN(q, m * RawPerQuantum)
        IN  /\ Len(entries) = k + m
            /\ \A i \in 1..(k - 1) : entries[i].amount = cshare
            /\ entries[k].amount = q - (k - 1) * cshare
            /\ \A i \in 1..(m - 1) : entries[k + i].amount = -dshare
            /\ entries[k + m].amount = -(q - (m - 1) * dshare)
            /\ \A i \in 1..k : entries[i].account_uid = creditors[i].uid
            /\ \A i \in 1..m : entries[k + i].account_uid = debtors[i].uid

C10_Witness ==
    /\ SplitOfNonEmpty
    /\ Len(creditors) = 3 /\ Len(debtors) = 3
    /\ creditors[1] # creditors[3]
    /\ debtors[1] # debtors[2]
    /\ entries[1].amount = entries[2].amount
    /\ entries[3].amount # entries[1].amount
    /\ entries[6].amount # entries[4].amount
    /\ entries[1].account_uid = creditors[1].uid
    /\ entries[6].account_uid = debtors[3].uid

\* s is x rounded to a multiple of the quantum, nearest first, an exact tie
\* to the even multiple.
IsHalfEvenOf(s, x) ==
    /\ s % RawPerQuantum = 0
    /\ 2 * Abs(s - x) <= RawPerQuantum
    /\ (2 * Abs(s - x) = RawPerQuantum => (s \div RawPerQuantum) % 2 = 0)

EntryStored ==
    /\ raised = NoException
    /\ Len(entries) > 0
    /\ IsHalfEvenOf(entries[Len(entries)].amount, Value(amount))

\* C11 (as stated): Entry construction never fails and stores, for every
\* finite raw amount, the amount rounded half-even to the minimal unit.
C11_Original ==
    op = "entry" => EntryStored

\* C11 (amended): for every finite raw amount whose rounded value fits the
\* 28 significant digits of the decimal context (magnitude below 10^26
\* currency units), Entry construction succeeds and stores the amount
\* rounded half-even to the minimal unit; a larger amount raises
\* decimal.InvalidOperation and no Entry is made.  Every Entry's amount is
\* a multiple of the minimal unit, and the splitter quantizes the cost with
\* the same constant and rounding mode.
C11_EntryQuantized ==
    /\ \A i \in 1..Len(entries) : entries[i].amount % RawPerQuantum = 0
    /\ (op = "entry" /\ amount.exp = 0) => EntryStored
    /\ (op = "entry" /\ amount \in HugeAmounts) =>
          /\ raised.exc = "decimal.InvalidOperation"
          /\ phase = "done"
    /\ SplitOfNonEmpty =>
          /\ Len(entries) = Len(creditors) + Len(debtors)
          /\ IsHalfEvenOf(Sum(Amounts(CreditPart)), cost)

C11_Witness ==
    /\ op = "entry"
    /\ amount.exp = 0
    /\ amount.coef < 0
    /\ raised = NoException
    /\ LET s == entries[Len(entries)].amount
       IN  /\ s # 0
           /\ 2 * Abs(s - amount.coef) = RawPerQuantum
           /\ (s \div RawPerQuantum) % 2 = 0

\* a Transaction was built from what split returned, with split's id
BuiltFromSplit ==
    /\ op = "transaction"
    /\ transaction # <<>>
    /\ Len(creditors) > 0 /\ Len(debtors) > 0
    /\ uid = transaction_uid

\* C12: a Transaction built from the entries split returns for a positive
\* cost and non-empty groups has gross_cost equal to the quantized cost.
C12_Original ==
    (BuiltFromSplit /\ cost > 0) => gross_cost(transaction[1]) = Quantize(cost)

====
